---- MODULE Spec2Model ----
(***************************************************************************)
(* xablogger: the coordinator (transaction registry, default fields, main  *)
(* logger) and the segments appended to transactions.                      *)
(*                                                                         *)
(* Every exported function is a sequence of steps of the calling           *)
(* goroutine; a step is one access to shared state (the registry map, a    *)
(* transaction's slice or mutex, a segment's data map, the log sink)       *)
(* together with the local computation around it.  Spec runs the calls of  *)
(* one goroutine one after another; in ConcSpec that goroutine opens       *)
(* transactions and then several goroutines make one coordinator call      *)
(* each, their steps interleaved.                                          *)
(***************************************************************************)
EXTENDS Integers, Sequences, FiniteSets, TLC

\* ------------------------------------------------------------------ bounds
\* entries the log sink accepts before the callers stop emitting
MaxLog == 3
\* transaction objects allocated over a run
MaxTx == 2
\* the milliseconds the clock may advance
MaxClock == 2
\* goroutines ConcSpec runs concurrently
NumThreads == 2

\* ------------------------------------------------------------------ inputs
\* the goroutines that run concurrently
Workers == 1..NumThreads
\* the goroutine whose calls run one after another
Main == NumThreads + 1
Threads == {Main} \cup Workers
\* transaction ids the callers use
Ids == {"tx1", "tx2"}
\* the segment objects the callers hold
Segs == {"s1", "s2"}
\* the segment a worker has built and appends
SegOf(w) == IF w % 2 = 1 THEN "s1" ELSE "s2"
\* the lists of DefaultFields options the callers pass to Init
OptionLists ==
    { <<>>, <<[error |-> "boom"]>>,
      <<[audit |-> "false", env |-> "dev"], [env |-> "prod"]>> }

\* -------------------------------------------------------------- go values
Nil == "<nil>"
Ok == "nil"
ErrExists == "already exists inside transactions map"
ErrTxNotFound == "Transaction not found"
ErrTxIDNotFound == "TransactionID not found"
NoRet == "-"
InfoLevel == "info"
ErrorLevel == "error"
EmptyMap == [k \in {} |-> Nil]
\* a sync.Mutex nobody holds (its zero value); else the goroutine holding it
Unlocked == 0

\* m[k] of a Go map: the zero value (nil interface) when k is absent
Get(m, k) == IF k \in DOMAIN m THEN m[k] ELSE Nil

\* for k, v := range over { base[k] = v }
Put(base, over) ==
    [k \in DOMAIN base \cup DOMAIN over |->
        IF k \in DOMAIN over THEN over[k] ELSE base[k]]

\* delete(m, k)
Delete(m, k) == [j \in DOMAIN m \ {k} |-> m[j]]

\* logrus Entry.WithFields: a copy of the entry's Data with fields put over it
WithFields(data, fields) == Put(data, fields)

\* the closure DefaultFields(fields) applied to the coordinator's defaultFields
DefaultFields(defaults, fields) == Put(defaults, fields)

RECURSIVE ApplyOptions(_, _)
\* for _, opt := range opts { opt(&coordinatorInstance) }
ApplyOptions(defaults, opts) ==
    IF opts = <<>> THEN defaults
    ELSE ApplyOptions(DefaultFields(defaults, Head(opts)), Tail(opts))

\* the defaultFields Init(opts...) leaves behind
InitFields(opts) == Put(ApplyOptions(EmptyMap, opts), [audit |-> "true"])

\* ---------------------------------------------------------------- segments
\* s1 is an HTTPSegment, s2 an SQLSegment
Type(s) == IF s = "s1" THEN "http" ELSE "sql"

\* the data map NewServerSegment / NewSQLSegment build
NewSegmentData(s) ==
    IF Type(s) = "http" THEN [method |-> "GET", path |-> "/"]
    ELSE [statement |-> "SELECT 1", driver |-> "pg"]

\* the writes of Failed(err) to the data map
FailedData(s, data) ==
    IF Type(s) = "http"
    THEN Put(data, [error |-> "failed", status_code |-> "500"])
    ELSE Put(data, [error |-> "failed"])

\* http.NoBody
NoBody == "http.NoBody"

\* the responses the callers record: an http.Response for an HTTPSegment, an
\* sql.Result for an SQLSegment
Responses(s) ==
    IF Type(s) = "http"
    THEN { [status |-> "404", headers |-> "h1", body |-> NoBody],
           [status |-> "201", headers |-> "h2", body |-> "created"] }
    ELSE { [rows |-> "1"] }

\* Response forgetting the error of the segment
ResponseData_Reset(s, data, res) ==
    IF Type(s) = "http"
    THEN Delete(Put(data, [status_code |-> res.status]), "error")
    ELSE Delete(Put(data, [rows_affected |-> res.rows]), "error")

\* the writes of Response(res) / ExecResponse(res) to the data map
ResponseData(s, data, res) ==
    IF Type(s) = "http"
    THEN LET head == Put(data, [status_code |-> res.status]
                               @@ ("response.headers" :> res.headers))
         IN  IF res.body # NoBody
             THEN Put(head, "response.body" :> res.body)
             ELSE head
    ELSE Put(data, [rows_affected |-> res.rows])

\* Done setting the OK status whatever the data map holds
DoneData_Always200(s, data, elapsed) ==
    IF Type(s) = "http"
    THEN Put(data, [elapsed_ms |-> elapsed, status_code |-> "200"])
    ELSE Put(data, [elapsed_ms |-> elapsed])

\* the writes of Done() to the data map, elapsed being the time since start
DoneData(s, data, elapsed) ==
    LET timed == Put(data, [elapsed_ms |-> elapsed])
    IN  IF Type(s) = "http" /\ ~ ("status_code" \in DOMAIN timed)
        THEN Put(timed, [status_code |-> "200"])
        ELSE timed

\* HasFailed reading the status code Failed sets instead of the error
HasFailed_ByStatus(data) == Get(data, "status_code") = "500"

\* s.data["error"] != nil
HasFailed(data) == Get(data, "error") # Nil

VARIABLES
    defaultFields,   \* coordinatorInstance.defaultFields
    transactionMap,  \* coordinatorInstance.transactionMap: id -> *transaction
    heap,            \* the transaction objects allocated so far, by address
    segData,         \* segment -> its data map
    segMux,          \* segment -> the goroutine holding its mux, or Unlocked
    log,             \* the entries handed to the main logger, in order
    pc,              \* goroutine -> the step it is at
    frame,           \* goroutine -> the arguments and locals of its call
    ret,             \* goroutine -> what its last call returned
    okFlushes,       \* number of FlushTransaction calls that returned nil
    now              \* the monotonic clock, in ms since the segments were built

vars == <<defaultFields, transactionMap, heap, segData, segMux, log, pc,
          frame, ret, okFlushes, now>>

\* a call's arguments (op, id, seg, arg), its locals (tx, buf) and the length
\* the log had when it began (mark)
NoFrame ==
    [op |-> "", id |-> "", seg |-> "", arg |-> <<>>, tx |-> 0, buf |-> <<>>,
     mark |-> 0]
NewFrame(op, id, seg) ==
    [op |-> op, id |-> id, seg |-> seg, arg |-> <<>>, tx |-> 0, buf |-> <<>>,
     mark |-> Len(log)]

\* calls in flight that will allocate a transaction / may emit an entry
Allocating == {t \in Threads : pc[t] \in {"NT_Lookup", "NT_Insert"}}
Emitting == {t \in Threads : pc[t] \in {"AS_Emit", "FT_Lookup", "FT_Emit"}}

\* the state Init(opts...) leaves, with the segments the callers have built
Init ==
    /\ \E opts \in OptionLists : defaultFields = InitFields(opts)
    /\ transactionMap = EmptyMap
    /\ heap = <<>>
    /\ segData = [s \in Segs |-> NewSegmentData(s)]
    /\ segMux = [s \in Segs |-> Unlocked]
    /\ log = <<>>
    /\ pc = [t \in Threads |-> "idle"]
    /\ frame = [t \in Threads |-> NoFrame]
    /\ ret = [t \in Threads |-> NoRet]
    /\ okFlushes = 0
    /\ now = 0

\* a goroutine enters one of the exported functions
Call(t, op, id, seg, first) ==
    /\ pc[t] = "idle"
    /\ pc' = [pc EXCEPT ![t] = first]
    /\ frame' = [frame EXCEPT ![t] = NewFrame(op, id, seg)]
    /\ ret' = [ret EXCEPT ![t] = NoRet]
    /\ UNCHANGED <<defaultFields, transactionMap, heap, segData, segMux, log,
                   okFlushes, now>>

\* a goroutine returns r
Return(t, r) ==
    /\ pc' = [pc EXCEPT ![t] = "idle"]
    /\ frame' = [frame EXCEPT ![t].arg = <<>>, ![t].tx = 0, ![t].buf = <<>>,
                              ![t].mark = 0]
    /\ ret' = [ret EXCEPT ![t] = r]

Goto(t, next) ==
    /\ pc' = [pc EXCEPT ![t] = next]
    /\ UNCHANGED ret

\* ------------------------------------------------------------------- Init
\* Init(opts...) is called again, no other call being in flight
CallInit(t, opts) ==
    /\ \A u \in Threads : pc[u] = "idle"
    /\ pc' = [pc EXCEPT ![t] = "IN_Reset"]
    /\ frame' = [frame EXCEPT ![t] = [NewFrame("Init", "", "") EXCEPT !.arg = opts]]
    /\ ret' = [ret EXCEPT ![t] = NoRet]
    /\ UNCHANGED <<defaultFields, transactionMap, heap, segData, segMux, log,
                   okFlushes, now>>

\* Init keeping the default fields it finds
IN_Reset_KeepFields(t) ==
    /\ pc[t] = "IN_Reset"
    /\ defaultFields' =
          Put(ApplyOptions(defaultFields, frame[t].arg), [audit |-> "true"])
    /\ transactionMap' = EmptyMap
    /\ Return(t, NoRet)
    /\ UNCHANGED <<heap, segData, segMux, log, okFlushes, now>>

\* coordinatorInstance = coordinator{}; the maps are made anew, the options
\* applied and audit set
IN_Reset(t) ==
    /\ pc[t] = "IN_Reset"
    /\ defaultFields' = InitFields(frame[t].arg)
    /\ transactionMap' = EmptyMap
    /\ Return(t, NoRet)
    /\ UNCHANGED <<heap, segData, segMux, log, okFlushes, now>>

\* --------------------------------------------------------- NewTransaction
\* a call that will allocate waits for room on the heap
CallNewTransaction(t, id) ==
    /\ \/ Len(heap) + Cardinality(Allocating) < MaxTx
       \/ id \in DOMAIN transactionMap
    /\ Call(t, "NewTransaction", id, "", "NT_Lookup")

\* NewTransaction emptying the transaction it finds before it returns the error
NT_Lookup_Replace(t) ==
    /\ pc[t] = "NT_Lookup"
    /\ IF frame[t].id \in DOMAIN transactionMap
       THEN /\ heap' = [heap EXCEPT
                           ![transactionMap[frame[t].id]].segments = <<>>]
            /\ Return(t, ErrExists)
       ELSE Goto(t, "NT_Insert") /\ UNCHANGED <<frame, heap>>
    /\ UNCHANGED <<defaultFields, transactionMap, segData, segMux, log,
                   okFlushes, now>>

\* NewTransaction without the exists check
NT_Lookup_NoCheck(t) ==
    /\ pc[t] = "NT_Lookup"
    /\ Goto(t, "NT_Insert")
    /\ UNCHANGED <<defaultFields, transactionMap, heap, segData, segMux, log,
                   frame, okFlushes, now>>

\* tx, exists := transactionMap[transactionID]; if exists { return error }
NT_Lookup(t) ==
    /\ pc[t] = "NT_Lookup"
    /\ IF frame[t].id \in DOMAIN transactionMap
       THEN Return(t, ErrExists)
       ELSE Goto(t, "NT_Insert") /\ UNCHANGED frame
    /\ UNCHANGED <<defaultFields, transactionMap, heap, segData, segMux, log,
                   okFlushes, now>>

\* NewTransaction taking over the segments of an earlier transaction of the id
NewTx_Reuse(id) ==
    [id |-> id,
     segments |-> IF \E x \in DOMAIN heap : heap[x].id = id
                  THEN heap[CHOOSE x \in DOMAIN heap : heap[x].id = id].segments
                  ELSE <<>>,
     logger |-> WithFields(EmptyMap, defaultFields),
     mux |-> Unlocked]

\* the transaction NewTransaction builds
NewTx(id) ==
    [id |-> id, segments |-> <<>>, logger |-> WithFields(EmptyMap, defaultFields),
     mux |-> Unlocked]

\* tx = &transaction{...}; transactionMap[transactionID] = tx; return nil
NT_Insert(t) ==
    /\ pc[t] = "NT_Insert"
    /\ heap' = Append(heap, NewTx(frame[t].id))
    /\ transactionMap' = Put(transactionMap, frame[t].id :> Len(heap) + 1)
    /\ Return(t, Ok)
    /\ UNCHANGED <<defaultFields, segData, segMux, log, okFlushes, now>>

\* ---------------------------------------------------------- AppendSegment
\* a call that will log waits for room in the log
CallAppendSegment(t, id, s) ==
    /\ Len(log) + Cardinality(Emitting) < MaxLog
    /\ Call(t, "AppendSegment", id, s, "AS_Emit")

\* the entry AppendSegment builds for the segment and the level it logs it at
SegmentEntry(s) ==
    [src |-> "AppendSegment",
     level |-> IF HasFailed(segData[s]) THEN ErrorLevel ELSE InfoLevel,
     data |-> WithFields(
                WithFields(EmptyMap,
                    ("segment.type" :> Type(s)) @@ ("segment.data" :> s)
                        @@ ("audit" :> "false")),
                defaultFields)]

\* AppendSegment looking the id up before it logs the segment
AS_Emit_CheckFirst(t) ==
    /\ pc[t] = "AS_Emit"
    /\ IF frame[t].id \in DOMAIN transactionMap
       THEN /\ log' = Append(log, SegmentEntry(frame[t].seg))
            /\ Goto(t, "AS_Lookup")
            /\ UNCHANGED frame
       ELSE /\ Return(t, ErrTxNotFound)
            /\ UNCHANGED log
    /\ UNCHANGED <<defaultFields, transactionMap, heap, segData, segMux,
                   okFlushes, now>>

\* segmentEntry := ...; segmentEntry.Error() or segmentEntry.Info()
AS_Emit(t) ==
    /\ pc[t] = "AS_Emit"
    /\ log' = Append(log, SegmentEntry(frame[t].seg))
    /\ Goto(t, "AS_Lookup")
    /\ UNCHANGED <<defaultFields, transactionMap, heap, segData, segMux, frame,
                   okFlushes, now>>

\* AppendSegment dropping the error of a failed lookup
AS_Lookup_Swallow(t) ==
    /\ pc[t] = "AS_Lookup"
    /\ IF frame[t].id \in DOMAIN transactionMap
       THEN /\ frame' = [frame EXCEPT ![t].tx = transactionMap[frame[t].id]]
            /\ Goto(t, "AS_Lock")
       ELSE Return(t, Ok)
    /\ UNCHANGED <<defaultFields, transactionMap, heap, segData, segMux, log,
                   okFlushes, now>>

\* tx, exists := transactionMap[transactionID]; if !exists { return error }
AS_Lookup(t) ==
    /\ pc[t] = "AS_Lookup"
    /\ IF frame[t].id \in DOMAIN transactionMap
       THEN /\ frame' = [frame EXCEPT ![t].tx = transactionMap[frame[t].id]]
            /\ Goto(t, "AS_Lock")
       ELSE Return(t, ErrTxNotFound)
    /\ UNCHANGED <<defaultFields, transactionMap, heap, segData, segMux, log,
                   okFlushes, now>>

\* AppendSegment entering without waiting for the mutex
AS_Lock_NoWait(t) ==
    /\ pc[t] = "AS_Lock"
    /\ heap' = [heap EXCEPT ![frame[t].tx].mux = t]
    /\ Goto(t, "AS_Read")
    /\ UNCHANGED <<defaultFields, transactionMap, segData, segMux, log, frame,
                   okFlushes, now>>

\* tx.mux.Lock()
AS_Lock(t) ==
    /\ pc[t] = "AS_Lock"
    /\ heap[frame[t].tx].mux = Unlocked
    /\ heap' = [heap EXCEPT ![frame[t].tx].mux = t]
    /\ Goto(t, "AS_Read")
    /\ UNCHANGED <<defaultFields, transactionMap, segData, segMux, log, frame,
                   okFlushes, now>>

\* append(tx.segments, segment): the slice is read
AS_Read(t) ==
    /\ pc[t] = "AS_Read"
    /\ frame' = [frame EXCEPT ![t].buf = heap[frame[t].tx].segments]
    /\ Goto(t, "AS_Write")
    /\ UNCHANGED <<defaultFields, transactionMap, heap, segData, segMux, log,
                   okFlushes, now>>

\* AppendSegment putting the segment in front
AS_Write_Prepend(t) ==
    /\ pc[t] = "AS_Write"
    /\ heap' = [heap EXCEPT ![frame[t].tx].segments =
                                <<frame[t].seg>> \o frame[t].buf]
    /\ Goto(t, "AS_Unlock")
    /\ UNCHANGED <<defaultFields, transactionMap, segData, segMux, log, frame,
                   okFlushes, now>>

\* tx.segments = append(...): the grown slice is stored
AS_Write(t) ==
    /\ pc[t] = "AS_Write"
    /\ heap' = [heap EXCEPT ![frame[t].tx].segments =
                                Append(frame[t].buf, frame[t].seg)]
    /\ Goto(t, "AS_Unlock")
    /\ UNCHANGED <<defaultFields, transactionMap, segData, segMux, log, frame,
                   okFlushes, now>>

\* tx.mux.Unlock(); return nil
AS_Unlock(t) ==
    /\ pc[t] = "AS_Unlock"
    /\ heap' = [heap EXCEPT ![frame[t].tx].mux = Unlocked]
    /\ Return(t, Ok)
    /\ UNCHANGED <<defaultFields, transactionMap, segData, segMux, log,
                   okFlushes, now>>

\* ------------------------------------------------------- FlushTransaction
\* a call that will log waits for room in the log
CallFlushTransaction(t, id) ==
    /\ \/ Len(log) + Cardinality(Emitting) < MaxLog
       \/ ~ (id \in DOMAIN transactionMap)
    /\ Call(t, "FlushTransaction", id, "", "FT_Lookup")

\* tx, exists := transactionMap[transactionID]; if !exists { return error }
FT_Lookup(t) ==
    /\ pc[t] = "FT_Lookup"
    /\ IF frame[t].id \in DOMAIN transactionMap
       THEN /\ frame' = [frame EXCEPT ![t].tx = transactionMap[frame[t].id]]
            /\ Goto(t, "FT_Emit")
       ELSE Return(t, ErrTxIDNotFound)
    /\ UNCHANGED <<defaultFields, transactionMap, heap, segData, segMux, log,
                   okFlushes, now>>

\* FlushTransaction logging at error level when a segment has failed
TransactionEntry_BySegments(tx) ==
    [src |-> "FlushTransaction",
     level |-> IF \E i \in DOMAIN tx.segments : HasFailed(segData[tx.segments[i]])
               THEN ErrorLevel ELSE InfoLevel,
     data |-> tx.logger]

\* the entry FlushTransaction logs for tx and the level it logs it at
TransactionEntry(tx) ==
    [src |-> "FlushTransaction",
     level |-> IF "error" \in DOMAIN tx.logger THEN ErrorLevel ELSE InfoLevel,
     data |-> tx.logger]

\* if _, failed := tx.logger.Data["error"]; failed { Error() } else { Info() }
FT_Emit(t) ==
    /\ pc[t] = "FT_Emit"
    /\ log' = Append(log, TransactionEntry(heap[frame[t].tx]))
    /\ Goto(t, "FT_Delete")
    /\ UNCHANGED <<defaultFields, transactionMap, heap, segData, segMux, frame,
                   okFlushes, now>>

\* FlushTransaction making the registry anew instead of deleting the id
FT_Delete_All(t) ==
    /\ pc[t] = "FT_Delete"
    /\ transactionMap' = EmptyMap
    /\ okFlushes' = okFlushes + 1
    /\ Return(t, Ok)
    /\ UNCHANGED <<defaultFields, heap, segData, segMux, log, now>>

\* FlushTransaction leaving the id in the registry
FT_Delete_Keep(t) ==
    /\ pc[t] = "FT_Delete"
    /\ okFlushes' = okFlushes + 1
    /\ Return(t, Ok)
    /\ UNCHANGED <<defaultFields, transactionMap, heap, segData, segMux, log, now>>

\* delete(transactionMap, transactionID); return nil
FT_Delete(t) ==
    /\ pc[t] = "FT_Delete"
    /\ transactionMap' = Delete(transactionMap, frame[t].id)
    /\ okFlushes' = okFlushes + 1
    /\ Return(t, Ok)
    /\ UNCHANGED <<defaultFields, heap, segData, segMux, log, now>>

\* ---------------------------------------------------------- Segment.Failed
CallFailed(t, s) == Call(t, "Failed", "", s, "FA_Lock")

\* s.mux.Lock()
FA_Lock(t) ==
    /\ pc[t] = "FA_Lock"
    /\ segMux[frame[t].seg] = Unlocked
    /\ segMux' = [segMux EXCEPT ![frame[t].seg] = t]
    /\ Goto(t, "FA_Write")
    /\ UNCHANGED <<defaultFields, transactionMap, heap, segData, log, frame,
                   okFlushes, now>>

\* s.data["error"] = err.Error(); (HTTP) s.data["status_code"] = 500
FA_Write(t) ==
    /\ pc[t] = "FA_Write"
    /\ segData' = [segData EXCEPT ![frame[t].seg] = FailedData(frame[t].seg, @)]
    /\ Goto(t, "FA_Unlock")
    /\ UNCHANGED <<defaultFields, transactionMap, heap, segMux, log, frame,
                   okFlushes, now>>

\* s.mux.Unlock()
FA_Unlock(t) ==
    /\ pc[t] = "FA_Unlock"
    /\ segMux' = [segMux EXCEPT ![frame[t].seg] = Unlocked]
    /\ Return(t, NoRet)
    /\ UNCHANGED <<defaultFields, transactionMap, heap, segData, log,
                   okFlushes, now>>

\* -------------------------------------------------------- Segment.Response
CallResponse(t, s, res) ==
    /\ pc[t] = "idle"
    /\ pc' = [pc EXCEPT ![t] = "RS_Lock"]
    /\ frame' = [frame EXCEPT ![t] =
                    [NewFrame("Response", "", s) EXCEPT !.arg = <<res>>]]
    /\ ret' = [ret EXCEPT ![t] = NoRet]
    /\ UNCHANGED <<defaultFields, transactionMap, heap, segData, segMux, log,
                   okFlushes, now>>

\* s.mux.Lock()
RS_Lock(t) ==
    /\ pc[t] = "RS_Lock"
    /\ segMux[frame[t].seg] = Unlocked
    /\ segMux' = [segMux EXCEPT ![frame[t].seg] = t]
    /\ Goto(t, "RS_Write")
    /\ UNCHANGED <<defaultFields, transactionMap, heap, segData, log, frame,
                   okFlushes, now>>

\* s.data["status_code"] = res.StatusCode; ... / s.data["rows_affected"] = ...
RS_Write(t) ==
    /\ pc[t] = "RS_Write"
    /\ segData' = [segData EXCEPT ![frame[t].seg] =
                      ResponseData(frame[t].seg, @, frame[t].arg[1])]
    /\ Goto(t, "RS_Unlock")
    /\ UNCHANGED <<defaultFields, transactionMap, heap, segMux, log, frame,
                   okFlushes, now>>

\* s.mux.Unlock()
RS_Unlock(t) ==
    /\ pc[t] = "RS_Unlock"
    /\ segMux' = [segMux EXCEPT ![frame[t].seg] = Unlocked]
    /\ Return(t, NoRet)
    /\ UNCHANGED <<defaultFields, transactionMap, heap, segData, log,
                   okFlushes, now>>

\* ------------------------------------------------------------ Segment.Done
\* the segments were built at time 0
Start(s) == 0

\* int(time.Since(s.start) / time.Millisecond), the clock counting in ms
Since(start) == now - start

CallDone(t, s) == Call(t, "Done", "", s, "DN_Lock")

\* s.mux.Lock()
DN_Lock(t) ==
    /\ pc[t] = "DN_Lock"
    /\ segMux[frame[t].seg] = Unlocked
    /\ segMux' = [segMux EXCEPT ![frame[t].seg] = t]
    /\ Goto(t, "DN_Write")
    /\ UNCHANGED <<defaultFields, transactionMap, heap, segData, log, frame,
                   okFlushes, now>>

\* s.data["elapsed_ms"] = ...; if no status_code { s.data["status_code"] = 200 }
DN_Write(t) ==
    /\ pc[t] = "DN_Write"
    /\ segData' = [segData EXCEPT ![frame[t].seg] =
                      DoneData(frame[t].seg, @, Since(Start(frame[t].seg)))]
    /\ Goto(t, "DN_Unlock")
    /\ UNCHANGED <<defaultFields, transactionMap, heap, segMux, log, frame,
                   okFlushes, now>>

\* s.mux.Unlock()
DN_Unlock(t) ==
    /\ pc[t] = "DN_Unlock"
    /\ segMux' = [segMux EXCEPT ![frame[t].seg] = Unlocked]
    /\ Return(t, NoRet)
    /\ UNCHANGED <<defaultFields, transactionMap, heap, segData, log,
                   okFlushes, now>>

\* a millisecond passes on the monotonic clock
Tick ==
    /\ now < MaxClock
    /\ now' = now + 1
    /\ UNCHANGED <<defaultFields, transactionMap, heap, segData, segMux, log,
                   pc, frame, ret, okFlushes>>

\* ------------------------------------------------------------ scheduling
\* the next step of a coordinator call in flight
CoordRun(t) ==
    \/ NT_Lookup(t)
    \/ NT_Insert(t)
    \/ AS_Emit(t)
    \/ AS_Lookup(t)
    \/ AS_Lock(t)
    \/ AS_Read(t)
    \/ AS_Write(t)
    \/ AS_Unlock(t)
    \/ FT_Lookup(t)
    \/ FT_Emit(t)
    \/ FT_Delete(t)

\* the next step of a segment call in flight
SegRun(t) ==
    \/ FA_Lock(t)
    \/ FA_Write(t)
    \/ FA_Unlock(t)

\* one goroutine: every call runs to its return before the next begins
Next ==
    \/ \E id \in Ids : CallNewTransaction(Main, id)
    \/ \E id \in Ids, s \in Segs : CallAppendSegment(Main, id, s)
    \/ \E id \in Ids : CallFlushTransaction(Main, id)
    \/ \E s \in Segs : CallFailed(Main, s)
    \/ CoordRun(Main)
    \/ SegRun(Main)

Spec == Init /\ [][Next]_vars

\* one goroutine that also calls Init again between its coordinator calls;
\* it opens any id and appends to and flushes tx1
InitNext ==
    \/ \E opts \in OptionLists : CallInit(Main, opts)
    \/ IN_Reset(Main)
    \/ \E id \in Ids : CallNewTransaction(Main, id)
    \/ CallAppendSegment(Main, "tx1", "s1")
    \/ CallFlushTransaction(Main, "tx1")
    \/ CoordRun(Main)

InitSpec == Init /\ [][InitNext]_vars

\* one goroutine working on its segments while time passes
SegNext ==
    \/ \E s \in Segs : CallFailed(Main, s)
    \/ \E s \in Segs : \E res \in Responses(s) : CallResponse(Main, s, res)
    \/ \E s \in Segs : CallDone(Main, s)
    \/ SegRun(Main)
    \/ RS_Lock(Main)
    \/ RS_Write(Main)
    \/ RS_Unlock(Main)
    \/ DN_Lock(Main)
    \/ DN_Write(Main)
    \/ DN_Unlock(Main)
    \/ Tick

SegSpec == Init /\ [][SegNext]_vars

\* no worker has made its call yet
Unstarted == \A w \in Workers : frame[w] = NoFrame

\* Main opens transactions; then each worker makes one coordinator call, the
\* workers' steps interleaved
ConcNext ==
    \/ Unstarted /\ \E id \in Ids : CallNewTransaction(Main, id)
    \/ NT_Lookup(Main)
    \/ NT_Insert(Main)
    \/ \E w \in Workers :
        /\ pc[Main] = "idle"
        /\ frame[w] = NoFrame
        /\ \/ \E id \in Ids : CallNewTransaction(w, id)
           \/ \E id \in Ids : CallAppendSegment(w, id, SegOf(w))
           \/ \E id \in Ids : CallFlushTransaction(w, id)
    \/ \E w \in Workers : CoordRun(w)

ConcSpec == Init /\ [][ConcNext]_vars

\* Main opens tx1; then each worker makes one call on a segment, a segment
\* method or AppendSegment, the workers' steps interleaved
SegConcNext ==
    \/ Unstarted /\ CallNewTransaction(Main, "tx1")
    \/ NT_Lookup(Main)
    \/ NT_Insert(Main)
    \/ \E w \in Workers, s \in Segs :
        /\ pc[Main] = "idle"
        /\ frame[w] = NoFrame
        /\ \/ CallFailed(w, s)
           \/ \E res \in Responses(s) : CallResponse(w, s, res)
           \/ CallDone(w, s)
           \/ CallAppendSegment(w, "tx1", s)
    \/ \E w \in Workers :
        \/ SegRun(w)
        \/ RS_Lock(w)
        \/ RS_Write(w)
        \/ RS_Unlock(w)
        \/ DN_Lock(w)
        \/ DN_Write(w)
        \/ DN_Unlock(w)
        \/ AS_Emit(w)
        \/ AS_Lookup(w)
        \/ AS_Lock(w)
        \/ AS_Read(w)
        \/ AS_Write(w)
        \/ AS_Unlock(w)

SegConcSpec == Init /\ [][SegConcNext]_vars

\* ------------------------------------------------------------- properties
Range(f) == {f[k] : k \in DOMAIN f}
Count(seq, x) == Cardinality({i \in DOMAIN seq : seq[i] = x})
Registered(id) == id \in DOMAIN transactionMap

\* the call of op that goroutine t has in flight returns in this step
Returns(t, op) == frame[t].op = op /\ pc[t] # "idle" /\ pc'[t] = "idle"

\* goroutine t has returned r from a call of op and made no call since
Returned(t, op, r) == pc[t] = "idle" /\ frame[t].op = op /\ ret[t] = r

\* the entries a call site has logged
EntriesOf(src) == {i \in DOMAIN log : log[i].src = src}

\* C1: a NewTransaction(id) call returns the already-exists error exactly when
\* id is in the registry, and otherwise returns nil and leaves id registered.
C1_DuplicateIffRegistered ==
    [][\A t \in Threads : Returns(t, "NewTransaction") =>
        /\ ret'[t] = IF Registered(frame[t].id) THEN ErrExists ELSE Ok
        /\ ret'[t] = Ok => frame[t].id \in DOMAIN transactionMap']_vars

\* an id that was flushed, opened again and then opened once more
C1_Witness == Returned(Main, "NewTransaction", ErrExists) /\ okFlushes >= 1

\* C2: AppendSegment(id, s) and FlushTransaction(id) return their not-found
\* error exactly when id is not in the registry, and nil when it is.
C2_NotFoundIffUnregistered ==
    [][\A t \in Threads :
        /\ Returns(t, "AppendSegment") =>
             ret'[t] = IF Registered(frame[t].id) THEN Ok ELSE ErrTxNotFound
        /\ Returns(t, "FlushTransaction") =>
             ret'[t] = IF Registered(frame[t].id) THEN Ok ELSE ErrTxIDNotFound]_vars

\* an append to an id that was flushed before
C2_Witness ==
    /\ Returned(Main, "AppendSegment", ErrTxNotFound)
    /\ \E x \in DOMAIN heap : heap[x].id = frame[Main].id

\* every worker has appended to id and got nil
AllAppended(id) ==
    \A w \in Workers : Returned(w, "AppendSegment", Ok) /\ frame[w].id = id

\* C3: when all the workers have concurrently appended to one open
\* transaction, its sequence holds exactly their segments, each as often as
\* it was appended.
C3_ConcurrentAppendsKept ==
    \A id \in Ids : AllAppended(id) /\ Registered(id) =>
        LET segments == heap[transactionMap[id]].segments IN
        /\ Len(segments) = NumThreads
        /\ \A s \in Segs :
             Count(segments, s) = Cardinality({w \in Workers : frame[w].seg = s})

\* two workers have appended different segments to the same transaction
C3_Witness ==
    \E id \in Ids :
        /\ AllAppended(id)
        /\ Registered(id)
        /\ \E v, w \in Workers : frame[v].seg # frame[w].seg

\* C4: the audit marker tells the entries of AppendSegment (false) from the
\* entries of FlushTransaction (true).
C4_AuditMarkerSeparates ==
    \A i \in DOMAIN log :
        log[i].data["audit"] =
            IF log[i].src = "AppendSegment" THEN "false" ELSE "true"

\* C5: a FlushTransaction(id) that returns nil has logged exactly one entry,
\* a transaction entry, and leaves id out of the registry; one that returns
\* not-found has logged nothing; between calls the transaction entries in the
\* log are as many as the calls that returned nil.
C5_OneEntryPerFlush ==
    [][/\ \A t \in Threads : Returns(t, "FlushTransaction") =>
            IF ret'[t] = Ok
            THEN /\ ~ (frame[t].id \in DOMAIN transactionMap')
                 /\ Len(log') = frame[t].mark + 1
                 /\ log'[Len(log')].src = "FlushTransaction"
            ELSE Len(log') = frame[t].mark
       /\ (\A t \in Threads : pc'[t] = "idle") =>
            Cardinality({i \in DOMAIN log' : log'[i].src = "FlushTransaction"})
               = okFlushes']_vars

\* a second flush of the id straight after the first
C5_Witness ==
    /\ Returned(Main, "FlushTransaction", ErrTxIDNotFound)
    /\ okFlushes = 1
    /\ log # <<>>
    /\ log[Len(log)].src = "FlushTransaction"

\* C6: a successful flush leaves the id free, the id stays free until a
\* NewTransaction registers it, and a NewTransaction of a free id returns nil
\* and registers a new transaction with no segments.
C6_ReopenStartsEmpty ==
    [][\A t \in Threads :
        /\ Returns(t, "FlushTransaction") /\ ret'[t] = Ok =>
             ~ (frame[t].id \in DOMAIN transactionMap')
        /\ \A id \in Ids :
             ~ Registered(id) /\ id \in DOMAIN transactionMap' =>
                \E u \in Threads : Returns(u, "NewTransaction") /\ frame[u].id = id
        /\ Returns(t, "NewTransaction") /\ ~ Registered(frame[t].id) =>
             /\ ret'[t] = Ok
             /\ frame[t].id \in DOMAIN transactionMap'
             /\ ~ (transactionMap'[frame[t].id] \in DOMAIN heap)
             /\ heap'[transactionMap'[frame[t].id]].segments = <<>>]_vars

\* an id reopened after the flush of a transaction that held segments
C6_Witness ==
    /\ Returned(Main, "NewTransaction", Ok)
    /\ heap[transactionMap[frame[Main].id]].segments = <<>>
    /\ \E x \in DOMAIN heap :
         /\ x # transactionMap[frame[Main].id]
         /\ heap[x].id = frame[Main].id
         /\ heap[x].segments # <<>>

\* C7: an AppendSegment call logs exactly one entry, a segment entry, in its
\* first step and nothing afterwards; the entry's level is error when the
\* segment's data holds an error and info otherwise.
C7_OneEntryPerAppend ==
    [][\A t \in Threads :
        /\ frame[t].op = "AppendSegment" /\ pc[t] # pc'[t] /\ pc[t] # "idle" =>
             IF pc[t] = "AS_Emit"
             THEN /\ Len(log') = Len(log) + 1
                  /\ SubSeq(log', 1, Len(log)) = log
                  /\ log'[Len(log')].src = "AppendSegment"
                  /\ log'[Len(log')].level =
                        IF "error" \in DOMAIN segData[frame[t].seg]
                        THEN ErrorLevel ELSE InfoLevel
             ELSE log' = log
        /\ Returns(t, "AppendSegment") => Len(log') = frame[t].mark + 1]_vars

\* one segment logged at info level, marked failed, and logged at error level
C7_Witness ==
    /\ pc[Main] = "idle"
    /\ \E i, j \in EntriesOf("AppendSegment") :
         /\ i < j
         /\ log[i].data["segment.data"] = log[j].data["segment.data"]
         /\ log[i].level = InfoLevel
         /\ log[j].level = ErrorLevel

\* the last entry of the log is the one an AppendSegment call logs for its
\* segment
LoggedLast(t) ==
    /\ log # <<>>
    /\ log[Len(log)].src = "AppendSegment"
    /\ log[Len(log)].data["segment.data"] = frame[t].seg

\* C8: when AppendSegment comes to look the id up it has logged the segment's
\* entry, and the entry is there when the call has returned not-found.
C8_EmitBeforeLookup ==
    \A t \in Threads :
        /\ pc[t] = "AS_Lookup" => LoggedLast(t) /\ Len(log) = frame[t].mark + 1
        /\ Returned(t, "AppendSegment", ErrTxNotFound) => LoggedLast(t)

\* a segment logged though no transaction was ever opened
C8_Witness ==
    /\ Returned(Main, "AppendSegment", ErrTxNotFound)
    /\ heap = <<>>
    /\ Len(log) = 1

\* C9: a transaction entry is at error level exactly when the default fields
\* hold an "error" key, whatever segments the transaction holds.
C9_FlushLevelFromDefaults ==
    \A i \in EntriesOf("FlushTransaction") :
        log[i].level =
            IF "error" \in DOMAIN defaultFields THEN ErrorLevel ELSE InfoLevel

\* a transaction whose only segments have failed, flushed at info level
C9_Witness ==
    /\ Returned(Main, "FlushTransaction", Ok)
    /\ log[Len(log)].level = InfoLevel
    /\ \E x \in DOMAIN heap :
         /\ ~ (x \in Range(transactionMap))
         /\ heap[x].id = frame[Main].id
         /\ heap[x].segments # <<>>
         /\ \A i \in DOMAIN heap[x].segments :
              HasFailed(segData[heap[x].segments[i]])

\* C10: a step leaves a transaction's segments as they are or, being the
\* store of an append to it, adds the call's segment at the end; an append
\* that returns nil leaves its segment last.
C10_AppendOnly ==
    [][/\ \A x \in DOMAIN heap :
            \/ heap'[x].segments = heap[x].segments
            \/ \E t \in Threads :
                 /\ pc[t] = "AS_Write"
                 /\ frame[t].tx = x
                 /\ heap'[x].segments = Append(heap[x].segments, frame[t].seg)
       /\ \A t \in Threads : Returns(t, "AppendSegment") /\ ret'[t] = Ok =>
            LET segments == heap'[frame[t].tx].segments IN
            /\ segments # <<>>
            /\ segments[Len(segments)] = frame[t].seg]_vars

\* two segments appended to one transaction, held in the order of the log
C10_Witness ==
    /\ pc[Main] = "idle"
    /\ \E x \in Range(transactionMap) :
         /\ Len(heap[x].segments) >= 2
         /\ heap[x].segments[1] # heap[x].segments[2]
         /\ \E i, j \in EntriesOf("AppendSegment") :
              /\ i < j
              /\ log[i].data["segment.data"] = heap[x].segments[1]
              /\ log[j].data["segment.data"] = heap[x].segments[2]

\* the last of the options that sets key k
LastSetting(opts, k) ==
    LET at == {i \in DOMAIN opts : k \in DOMAIN opts[i]}
    IN  opts[CHOOSE i \in at : \A j \in at : j <= i][k]

\* the options merged in order, a later one winning, with audit true
MergedInOrder(opts) ==
    [k \in UNION {DOMAIN opts[i] : i \in DOMAIN opts} \cup {"audit"} |->
        IF k = "audit" THEN "true" ELSE LastSetting(opts, k)]

\* C11: Init(opts...) called again leaves an empty registry and, as default
\* fields, exactly its options merged in order with audit true, whatever the
\* registry and the default fields were.
C11_InitResets ==
    [][\A t \in Threads : Returns(t, "Init") =>
        /\ transactionMap' = EmptyMap
        /\ defaultFields' = MergedInOrder(frame[t].arg)]_vars

\* Init called with two options on one key and an audit of their own, while
\* a transaction opened under an "error" default field was open
C11_Witness ==
    /\ Returned(Main, "Init", NoRet)
    /\ defaultFields = [audit |-> "true", env |-> "prod"]
    /\ \E x \in DOMAIN heap :
         /\ heap[x].id = "tx2"
         /\ "error" \in DOMAIN heap[x].logger

\* no worker has called FlushTransaction(id)
NoFlushOf(id) ==
    \A u \in Workers : ~ (frame[u].op = "FlushTransaction" /\ frame[u].id = id)

\* the transactions that were built for id
Instances(id) == {x \in DOMAIN heap : heap[x].id = id}

\* C12: of two concurrent NewTransaction calls with the same id, not open
\* before, exactly one returns nil and the other the already-exists error,
\* and one transaction is built and registered for the id.
C12_OneOpenerWins ==
    \A id \in Ids : \A v, w \in Workers :
        (/\ v # w
         /\ NoFlushOf(id)
         /\ frame[v].id = id /\ frame[w].id = id
         /\ Returned(v, "NewTransaction", Ok)
         /\ pc[w] = "idle" /\ frame[w].op = "NewTransaction")
        => /\ ret[w] = ErrExists
           /\ Cardinality(Instances(id)) = 1

\* the steps that read the registry and the steps that write it; a goroutine
\* at one of them executes it next and waits for nothing
RegistryWrites == {"NT_Insert", "FT_Delete"}
RegistryAccesses == {"NT_Lookup", "AS_Lookup", "FT_Lookup"} \cup RegistryWrites

\* C13: no two goroutines are at a registry access at once with one of them
\* at an insert or a remove.
C13_RegistryExclusive ==
    \A t, u \in Threads :
        (t # u /\ pc[t] \in RegistryWrites) => ~ (pc[u] \in RegistryAccesses)

\* C19: of the concurrent FlushTransaction calls on one opening of an id,
\* exactly one returns nil and logs the one consolidated entry; the others
\* return the not-found error and log nothing.
C19_OneFlusherWins ==
    /\ Cardinality(EntriesOf("FlushTransaction")) <= Len(heap)
    /\ \A id \in Ids : \A v, w \in Workers :
        (/\ v # w
         /\ Cardinality(Instances(id)) = 1
         /\ frame[v].id = id /\ frame[w].id = id
         /\ Returned(v, "FlushTransaction", Ok)
         /\ pc[w] = "idle" /\ frame[w].op = "FlushTransaction")
        => ret[w] = ErrTxIDNotFound

\* goroutine t stores its segment in the transaction it looked up
Appends(t) == pc[t] = "AS_Write" /\ pc'[t] = "AS_Unlock"

\* C20: an AppendSegment that returns nil stored its segment while the
\* transaction was registered and its consolidated entry not yet logged
\* (after the store AppendSegment can only unlock and return nil).
C20_AppendBeforeFlush ==
    [][\A t \in Threads : Appends(t) =>
        /\ frame[t].tx \in Range(transactionMap)
        /\ \A u \in Threads :
             ~ (pc[u] = "FT_Delete" /\ frame[u].tx = frame[t].tx)]_vars

\* goroutine t makes the writes of the call op to the data map of segment s
Writes(t, op, s) ==
    /\ frame[t].op = op /\ frame[t].seg = s
    /\ pc[t] \in {"FA_Write", "RS_Write", "DN_Write"}
    /\ pc'[t] # pc[t]

\* C15: HasFailed() of a segment is true exactly when Failed was called on
\* it: false on a fresh segment, true from the writes of Failed on, whatever
\* response setter or Done follows.
C15_FailedIffMarked ==
    /\ \A s \in Segs : ~ HasFailed(segData[s])
    /\ [][\A s \in Segs :
            HasFailed(segData'[s]) <=>
                \/ HasFailed(segData[s])
                \/ \E t \in Threads : Writes(t, "Failed", s)]_vars

\* both kinds of segment after Failed, a response and Done, and after a
\* response and Done alone
C15_Witness ==
    /\ HasFailed(segData["s1"])
    /\ Get(segData["s1"], "status_code") = "201"
    /\ "elapsed_ms" \in DOMAIN segData["s1"]
    /\ ~ HasFailed(segData["s2"])
    /\ "rows_affected" \in DOMAIN segData["s2"]
    /\ "elapsed_ms" \in DOMAIN segData["s2"]

\* C16: on an HTTP segment Done sets elapsed_ms >= 0 and status_code 200 only
\* when none is set and changes nothing else; Failed sets status_code 500, a
\* response its own status, and nothing else changes the data map.
C16_DoneKeepsStatus ==
    [][\A s \in Segs : Type(s) = "http" =>
        /\ \A t \in Threads : Writes(t, "Done", s) =>
             /\ segData'[s]["elapsed_ms"] >= 0
             /\ segData'[s]["status_code"] =
                  IF "status_code" \in DOMAIN segData[s]
                  THEN segData[s]["status_code"] ELSE "200"
             /\ DOMAIN segData'[s] =
                  DOMAIN segData[s] \cup {"elapsed_ms", "status_code"}
             /\ \A k \in DOMAIN segData[s] \ {"elapsed_ms"} :
                  segData'[s][k] = segData[s][k]
        /\ \A t \in Threads : Writes(t, "Failed", s) =>
             segData'[s]["status_code"] = "500"
        /\ \A t \in Threads : Writes(t, "Response", s) =>
             segData'[s]["status_code"] = frame[t].arg[1].status
        /\ (\A t \in Threads, op \in {"Failed", "Response", "Done"} :
                ~ Writes(t, op, s)) => segData'[s] = segData[s]]_vars

\* Done has returned, some time after the start, on an HTTP segment that
\* Failed and then a response setter were called on
C16_Witness ==
    /\ Returned(Main, "Done", NoRet)
    /\ frame[Main].seg = "s1"
    /\ HasFailed(segData["s1"])
    /\ segData["s1"]["status_code"] = "404"
    /\ segData["s1"]["elapsed_ms"] > 0

\* goroutine t reads the data map of its segment through Fields() and
\* HasFailed() to build the entry AppendSegment logs
ReadsFields(t) == pc[t] = "AS_Emit" /\ pc'[t] # pc[t]

\* C14: no goroutine reads the field set of a segment while another is
\* inside the critical section of Failed, a response setter or Done on it.
C14_ReadsOutsideCriticalSections ==
    [][\A t \in Threads : ReadsFields(t) =>
        segMux[frame[t].seg] \in {Unlocked, t}]_vars

\* goroutine t takes a step
Steps(t) == pc'[t] # pc[t]

\* the steps of a call up to and with its registry lookup
UpToLookup == {"idle", "NT_Lookup", "AS_Emit", "AS_Lookup", "FT_Lookup"}

\* C17: a call that fails returns at its lookup, and no step up to there
\* changes the registry or a transaction; the failing NewTransaction and
\* FlushTransaction have logged nothing, and the duplicate id stays registered.
C17_FailureChangesNothing ==
    [][\A t \in Threads :
        /\ (Steps(t) /\ pc[t] \in UpToLookup) =>
             transactionMap' = transactionMap /\ heap' = heap
        /\ (Returns(t, "NewTransaction") /\ ret'[t] = ErrExists) =>
             /\ pc[t] = "NT_Lookup"
             /\ frame[t].id \in DOMAIN transactionMap'
             /\ log' = log /\ Len(log) = frame[t].mark
        /\ (Returns(t, "FlushTransaction") /\ ret'[t] = ErrTxIDNotFound) =>
             /\ pc[t] = "FT_Lookup"
             /\ log' = log /\ Len(log) = frame[t].mark
        /\ (Returns(t, "AppendSegment") /\ ret'[t] = ErrTxNotFound) =>
             pc[t] = "AS_Lookup"]_vars

\* NewTransaction has failed on an id whose transaction holds segments
C17_Witness ==
    /\ Returned(Main, "NewTransaction", ErrExists)
    /\ Registered(frame[Main].id)
    /\ heap[transactionMap[frame[Main].id]].segments # <<>>

\* the id of the call goroutine t is in, or enters in this step
CallId(t) == IF pc[t] = "idle" THEN frame'[t].id ELSE frame[t].id

\* C18: a step of a call on id a leaves every other id b as it is: registered
\* or not, with the same transaction and the same segment sequence.
C18_OtherIdsUntouched ==
    [][\A t \in Threads : Steps(t) =>
        \A b \in Ids \ {CallId(t)} :
            /\ Registered(b)' <=> Registered(b)
            /\ Registered(b) =>
                 /\ transactionMap'[b] = transactionMap[b]
                 /\ heap'[transactionMap[b]] = heap[transactionMap[b]]]_vars

\* tx1 has been flushed while tx2, opened after it, holds a segment
C18_Witness ==
    /\ Returned(Main, "FlushTransaction", Ok)
    /\ frame[Main].id = "tx1"
    /\ Registered("tx2")
    /\ transactionMap["tx2"] = Len(heap)
    /\ heap[transactionMap["tx2"]].segments # <<>>
====
